---- MODULE Spec2Model ----
(***************************************************************************)
(* Payment lifecycle, transactional outbox and event publication of the    *)
(* tutors marketplace backend (backend/apps/payments, backend/apps/events, *)
(* backend/apps/tutors/signals.py).                                        *)
(*                                                                         *)
(* The specifications of this module:                                      *)
(*   SpecIntent   CreatePaymentIntentView.post, requests interleaved at    *)
(*                the queries of get_or_create;                            *)
(*   Spec         Confirm, the admin webhook simulator, the booking API    *)
(*                and the Celery tasks, interleaved at their queries,      *)
(*                saves and enqueues;                                      *)
(*   SpecTasks    the Celery tasks invoked directly with any argument;     *)
(*   FairPipeline one Confirm and the tasks it sets off, with workers      *)
(*                that run every queued job;                               *)
(*   SpecMissing  requests that name a payment or booking that is not      *)
(*                there or not the caller's;                               *)
(*   SpecOutbox   Tutor mutations, their outbox events and the publisher   *)
(*                (FairOutbox adds the scheduling of Celery beat);         *)
(*   SpecBacklog  the publisher over a backlog larger than its batch       *)
(*                (FairStarve: with events the broker always refuses);     *)
(*   SpecDeliver  one webhook event applied by the admin simulator and by  *)
(*                process_webhook_event;                                   *)
(*   FairCrash    FairPipeline with a simulator job that may raise;        *)
(*   SpecProducer threads that share the EventProducer singleton.          *)
(***************************************************************************)
EXTENDS Bags, FiniteSets, Integers, Sequences, TLC

VARIABLES
    payments,      \* table "payments": id -> row
    bookings,      \* table "bookings": id -> row
    intentSeq,     \* number of payment_intent_id values generated so far
    createReqs,    \* CreateIntent requests: index -> request state
    confirmReqs,   \* Confirm requests: index -> request state
    adminReqs,     \* webhook-simulator requests: index -> request state
    bookingReqs,   \* booking API requests: index -> request state
    statusReqs,    \* GetStatus requests: index -> request state
    queue,         \* Celery queue: bag of jobs not yet started
    running,       \* Celery tasks started and not yet returned: bag
    called,        \* the task called directly, if any
    returned,      \* what the task called directly returned
    tutors,        \* table Tutor: ids of the committed rows
    tutorTx,       \* Tutor mutations: index -> transaction state
    outbox,        \* table OutboxEvent: id -> row
    now,           \* timezone.now()
    broker,        \* messages the Kafka broker has acknowledged, in order
    brokerMode,    \* how the broker fails: "ok", "alternate", "poison", "any"
    sendCalls,     \* number of producer.send calls made so far
    concurrency,   \* Celery worker processes that may run the publisher
    runs,          \* publish_outbox_events runs: index -> run state
    instance,      \* EventProducer._instance: 0 for None, or the object
    objects,       \* number of EventProducer objects created
    kafka,         \* the _producer attribute: 0 for None, or a KafkaProducer
    producers,     \* the KafkaProducers created: id -> "open" or "closed"
    lock,          \* EventProducer._lock: 0 when free, or the holding thread
    threads        \* threads of one process: index -> what the thread is at

payVars == <<payments, bookings, intentSeq, createReqs, confirmReqs,
             adminReqs, bookingReqs, statusReqs, queue, running, called,
             returned>>
outboxVars == <<tutors, tutorTx, outbox, now, broker, brokerMode, sendCalls,
                concurrency, runs>>
producerVars == <<instance, objects, kafka, producers, lock, threads>>
vars == <<payments, bookings, intentSeq, createReqs, confirmReqs,
          adminReqs, bookingReqs, statusReqs, queue, running, called, returned,
          tutors,
          tutorTx, outbox,
          now, broker,
          brokerMode, sendCalls, concurrency, runs,
          instance, objects, kafka, producers, lock, threads>>

----------------------------------------------------------------------------
(* Bounds of the model *)

MaxCreate == 2       \* CreateIntent requests issued
MaxCalls == 2        \* Confirm, webhook-simulator and booking requests issued
MaxTx == 2           \* Tutor mutations attempted
MaxTime == 2         \* last reading of the clock
MaxRuns == 2         \* publish_outbox_events runs in flight at once
MaxThreads == 2      \* threads that use EventProducer in one process
MaxOps == 2          \* calls of send or close one thread makes
\* messages the broker log holds: every run may send every event once
MaxLog == MaxTx * MaxRuns

----------------------------------------------------------------------------
(* Data *)

Users == {"u1", "u2"}

\* Payment.Status
PENDING == "pending"
PROCESSING == "processing"
SUCCEEDED == "succeeded"
FAILED == "failed"
REFUNDED == "refunded"
PaymentStatus == {PENDING, PROCESSING, SUCCEEDED, FAILED, REFUNDED}

\* Booking.Status
B_PENDING == "pending"
B_CONFIRMED == "confirmed"
B_CANCELLED == "cancelled"
B_COMPLETED == "completed"
BookingStatus == {B_PENDING, B_CONFIRMED, B_CANCELLED, B_COMPLETED}

\* test cards of the simulator
TEST_CARD_SUCCESS == "4242424242424242"
TEST_CARD_DECLINED == "4000000000000002"
TEST_CARD_INSUFFICIENT == "4000000000009995"
OTHER_CARD == "4111111111111111"
NoCard == "None"
EmptyCard == ""
\* ConfirmPaymentSerializer: card_number is optional and, when given, not blank
ConfirmCards == {TEST_CARD_SUCCESS, TEST_CARD_DECLINED, TEST_CARD_INSUFFICIENT,
                 OTHER_CARD, NoCard}
\* a task called directly takes any str | None
Cards == ConfirmCards \cup {EmptyCard}

EV_SUCCEEDED == "payment_intent.succeeded"
EV_FAILED == "payment_intent.failed"
\* WebhookEventSerializer.event_type choices
WebhookEvents == {EV_SUCCEEDED, EV_FAILED}

\* amount, currency and metadata of a CreateIntent request
Details1 == [amount |-> 100, currency |-> "RUB", metadata |-> "m1"]
Details2 == [amount |-> 200, currency |-> "USD", metadata |-> "m2"]
Details == {Details1, Details2}

Keys == {"k1", "k2"}

\* the fields of Payment the model follows
PaymentRow(intent, key, details, status, booking, user) ==
    [payment_intent_id |-> intent, idempotency_key |-> key,
     amount |-> details.amount, currency |-> details.currency,
     metadata |-> details.metadata, status |-> status,
     booking |-> booking, user |-> user]

\* the fields of Booking the model follows
BookingRow(student, status) == [student |-> student, status |-> status]

NoRow == [id |-> 0]
NoCall == [task |-> "none"]
NoResult == [none |-> TRUE]

Range(f) == {f[x] : x \in DOMAIN f}

\* Payment.objects.get(payment_intent_id=i): ids of the matching rows
ByIntent(i) == {p \in DOMAIN payments : payments[p].payment_intent_id = i}
\* the lookup without its user filter
ByIntentAndUser_AnyUser(i, u) == ByIntent(i)

\* Payment.objects.get(payment_intent_id=i, user=u)
ByIntentAndUser(i, u) == {p \in ByIntent(i) : payments[p].user = u}
\* Payment.objects.get(idempotency_key=k)
ByKey(k) == {p \in DOMAIN payments : payments[p].idempotency_key = k}

\* an in-memory model instance: the primary key and the loaded fields
Instance(id, row) == [id |-> id, row |-> row]


----------------------------------------------------------------------------
(* The Celery queue *)

SimulateJob(payment_id, card) ==
    [task |-> "simulate_payment_provider", payment_id |-> payment_id,
     card_number |-> card]
WebhookJob(event, intent) ==
    [task |-> "process_webhook_event", event_type |-> event,
     payment_intent_id |-> intent]
SuccessJob(payment_id) ==
    [task |-> "process_successful_payment", payment_id |-> payment_id]

\* task.delay(...): the job joins the queue
Delay(q, job) == q (+) SetToBag({job})
\* a worker takes the job off the queue
Take(q, job) == q (-) SetToBag({job})

Queued(name) == {j \in BagToSet(queue) : j.task = name}
Running(name) == {t \in BagToSet(running) : t.task = name}

----------------------------------------------------------------------------
(* Requests *)

IdleReq == [pc |-> "idle"]

\* a request that has been answered: the HTTP code and the status in the body
Response(code, status) == [pc |-> "done", code |-> code, status |-> status]

Issued(reqs) == {r \in DOMAIN reqs : reqs[r].pc # "idle"}

\* requests are numbered in the order they arrive
Arrives(reqs, r) ==
    /\ reqs[r].pc = "idle"
    /\ r > 1 => reqs[r - 1].pc # "idle"

Answered(reqs) == {r \in DOMAIN reqs : reqs[r].pc = "done"}

CallsLeft ==
    Cardinality(Issued(confirmReqs)) + Cardinality(Issued(adminReqs))
        + Cardinality(Issued(bookingReqs)) < MaxCalls

----------------------------------------------------------------------------
(* CreatePaymentIntentView.post *)

\* Payment.generate_payment_intent_id(): a value no earlier call returned
generate_payment_intent_id == intentSeq + 1

\* Booking.objects.get(id=b, student=u)
OwnBooking(b, u) == b \in DOMAIN bookings /\ bookings[b].student = u

\* a lookup that also matches on the booking
Existing_PerBooking(k, u, b) == {p \in ByKey(k) : payments[p].booking = b}

\* the rows get_or_create's lookup matches: idempotency_key alone
Existing(k, u, b) == ByKey(k)

\* a table whose idempotency_key column is not unique
UniqueViolation_IntentOnly(row) == ByIntent(row.payment_intent_id) # {}

\* the unique constraints of Payment that an INSERT of the row would break
UniqueViolation(row) ==
    \/ ByKey(row.idempotency_key) # {}
    \/ ByIntent(row.payment_intent_id) # {}

\* lines 76-91: the body and the code of the answer
IntentResponse(req, row, created, conflict, after) ==
    [pc |-> "done", user |-> req.user, booking |-> req.booking,
     key |-> req.key, details |-> req.details, after |-> after,
     code |-> IF created THEN 201 ELSE 200,
     payment_intent_id |-> row.payment_intent_id,
     amount |-> row.amount, currency |-> row.currency,
     status |-> row.status, created |-> created, conflict |-> conflict]

\* an answer without a payment: 404 (booking) or 500 (IntegrityError re-raised)
IntentError(req, code, after) ==
    [pc |-> "done", user |-> req.user, booking |-> req.booking,
     key |-> req.key, details |-> req.details, after |-> after,
     code |-> code, payment_intent_id |-> 0, amount |-> 0, currency |-> "none",
     status |-> "none", created |-> FALSE, conflict |-> FALSE]

\* lines 47-74, first half: validate, check the booking, build the defaults
\* (which generates an intent id), and run get_or_create's lookup
CreateIntentGet(r, u, b, k, d) ==
    /\ Arrives(createReqs, r)
    /\ LET req == [user |-> u, booking |-> b, key |-> k, details |-> d]
           after == Answered(createReqs)
       IN  IF ~OwnBooking(b, u)
           THEN /\ createReqs' = [createReqs EXCEPT ![r] =
                                      IntentError(req, 404, after)]
                /\ intentSeq' = intentSeq
           ELSE /\ intentSeq' = intentSeq + 1
                /\ IF Existing(k, u, b) # {}
                   THEN \E p \in Existing(k, u, b) :
                            createReqs' = [createReqs EXCEPT ![r] =
                                IntentResponse(req, payments[p], FALSE, FALSE,
                                               after)]
                   ELSE createReqs' = [createReqs EXCEPT ![r] =
                            [pc |-> "insert", user |-> u, booking |-> b,
                             key |-> k, details |-> d, after |-> after,
                             intent |-> generate_payment_intent_id]]
    /\ UNCHANGED <<payments, bookings, confirmReqs, adminReqs, queue, running,
                   called, returned>>
    /\ UNCHANGED <<bookingReqs, statusReqs>>
    /\ UNCHANGED outboxVars
    /\ UNCHANGED producerVars

\* lines 63-74, second half: get_or_create's INSERT; on IntegrityError its
\* second lookup, which re-raises when it finds nothing
CreateIntentInsert(r) ==
    /\ createReqs[r].pc = "insert"
    /\ LET req == createReqs[r]
           row == PaymentRow(req.intent, req.key, req.details, PENDING,
                             req.booking, req.user)
           id == Cardinality(DOMAIN payments) + 1
       IN  IF ~UniqueViolation(row)
           THEN /\ payments' = (id :> row) @@ payments
                /\ createReqs' = [createReqs EXCEPT ![r] =
                       IntentResponse(req, row, TRUE, FALSE, req.after)]
           ELSE /\ payments' = payments
                /\ IF Existing(req.key, req.user, req.booking) # {}
                   THEN \E p \in Existing(req.key, req.user, req.booking) :
                            createReqs' = [createReqs EXCEPT ![r] =
                                IntentResponse(req, payments[p], FALSE, TRUE,
                                               req.after)]
                   ELSE createReqs' = [createReqs EXCEPT ![r] =
                            IntentError(req, 500, req.after)]
    /\ UNCHANGED <<bookings, intentSeq, confirmReqs, adminReqs, queue, running,
                   called, returned>>
    /\ UNCHANGED <<bookingReqs, statusReqs>>
    /\ UNCHANGED outboxVars
    /\ UNCHANGED producerVars

----------------------------------------------------------------------------
(* ConfirmPaymentView.post *)

\* an early return for the terminal statuses only
AlreadyProcessed_TerminalOnly(row) == row.status \in {SUCCEEDED, FAILED, REFUNDED}

\* line 128: if payment.status != Payment.Status.PENDING
AlreadyProcessed(row) == row.status # PENDING

\* lines 113-134: validate, look the payment up, return early unless pending
ConfirmGet(r, u, i, c) ==
    /\ Arrives(confirmReqs, r)
    /\ CallsLeft
    /\ IF ByIntentAndUser(i, u) = {}
       THEN confirmReqs' = [confirmReqs EXCEPT ![r] = Response(404, "none")]
       ELSE \E p \in ByIntentAndUser(i, u) :
                IF AlreadyProcessed(payments[p])
                THEN confirmReqs' = [confirmReqs EXCEPT ![r] =
                         Response(200, payments[p].status)]
                ELSE confirmReqs' = [confirmReqs EXCEPT ![r] =
                         [pc |-> "loaded", card |-> c,
                          payment |-> Instance(p, payments[p])]]
    /\ UNCHANGED <<payments, bookings, intentSeq, createReqs, adminReqs,
                   queue, running, called, returned>>
    /\ UNCHANGED <<bookingReqs, statusReqs>>
    /\ UNCHANGED outboxVars
    /\ UNCHANGED producerVars

\* a confirm that settles the payment itself
ConfirmSave_Settles(r) ==
    /\ confirmReqs[r].pc = "loaded"
    /\ LET inst == confirmReqs[r].payment
           row == [inst.row EXCEPT !.status = SUCCEEDED]
       IN  /\ payments' = [payments EXCEPT ![inst.id] = row]
           /\ confirmReqs' = [confirmReqs EXCEPT ![r].pc = "saved",
                                                 ![r].payment = Instance(inst.id, row)]
    /\ UNCHANGED <<bookings, intentSeq, createReqs, adminReqs, queue, running,
                   called, returned>>
    /\ UNCHANGED <<bookingReqs, statusReqs>>
    /\ UNCHANGED outboxVars
    /\ UNCHANGED producerVars

\* lines 136-138: payment.status = PROCESSING; payment.save()
ConfirmSave(r) ==
    /\ confirmReqs[r].pc = "loaded"
    /\ LET inst == confirmReqs[r].payment
           row == [inst.row EXCEPT !.status = PROCESSING]
       IN  /\ payments' = [payments EXCEPT ![inst.id] = row]
           /\ confirmReqs' = [confirmReqs EXCEPT ![r].pc = "saved",
                                                 ![r].payment = Instance(inst.id, row)]
    /\ UNCHANGED <<bookings, intentSeq, createReqs, adminReqs, queue, running,
                   called, returned>>
    /\ UNCHANGED <<bookingReqs, statusReqs>>
    /\ UNCHANGED outboxVars
    /\ UNCHANGED producerVars

\* lines 140-151: simulate_payment_provider.delay(...); return the status
ConfirmEnqueue(r) ==
    /\ confirmReqs[r].pc = "saved"
    /\ queue' = Delay(queue, SimulateJob(confirmReqs[r].payment.id,
                                         confirmReqs[r].card))
    /\ confirmReqs' = [confirmReqs EXCEPT ![r] =
                           Response(200, confirmReqs[r].payment.row.status)]
    /\ UNCHANGED <<payments, bookings, intentSeq, createReqs, adminReqs,
                   running, called, returned>>
    /\ UNCHANGED <<bookingReqs, statusReqs>>
    /\ UNCHANGED outboxVars
    /\ UNCHANGED producerVars

----------------------------------------------------------------------------
(* WebhookSimulatorView.post *)

\* the handler without its succeeded branch
EventStatus_FailedOnly(event_type, status) ==
    IF event_type = EV_FAILED THEN FAILED ELSE status

\* the status an event type assigns
EventStatus(event_type, status) ==
    IF event_type = EV_SUCCEEDED THEN SUCCEEDED
    ELSE IF event_type = EV_FAILED THEN FAILED
    ELSE status

\* lines 172-184: validate and look the payment up by intent id alone
AdminWebhookGet(a, e, i) ==
    /\ Arrives(adminReqs, a)
    /\ CallsLeft
    /\ IF ByIntent(i) = {}
       THEN adminReqs' = [adminReqs EXCEPT ![a] = Response(404, "none")]
       ELSE \E p \in ByIntent(i) :
                adminReqs' = [adminReqs EXCEPT ![a] =
                    [pc |-> "loaded", event_type |-> e,
                     payment |-> Instance(p, payments[p])]]
    /\ UNCHANGED <<payments, bookings, intentSeq, createReqs, confirmReqs,
                   queue, running, called, returned>>
    /\ UNCHANGED <<bookingReqs, statusReqs>>
    /\ UNCHANGED outboxVars
    /\ UNCHANGED producerVars

\* lines 186-199: set the status of the event, save, answer
AdminWebhookSave(a) ==
    /\ adminReqs[a].pc = "loaded"
    /\ LET inst == adminReqs[a].payment
           row == [inst.row EXCEPT
                       !.status = EventStatus(adminReqs[a].event_type, @)]
       IN  /\ payments' = [payments EXCEPT ![inst.id] = row]
           /\ adminReqs' = [adminReqs EXCEPT ![a] = Response(200, row.status)]
    /\ UNCHANGED <<bookings, intentSeq, createReqs, confirmReqs, queue,
                   running, called, returned>>
    /\ UNCHANGED <<bookingReqs, statusReqs>>
    /\ UNCHANGED outboxVars
    /\ UNCHANGED producerVars

----------------------------------------------------------------------------
(* PaymentStatusView.get *)

\* lines 217-234: look the payment up by intent id and user; answer
StatusGet(r, u, i) ==
    /\ Arrives(statusReqs, r)
    /\ statusReqs' = [statusReqs EXCEPT ![r] =
           IF ByIntentAndUser(i, u) = {} THEN Response(404, "none")
           ELSE Response(200, payments[CHOOSE p \in ByIntentAndUser(i, u) : TRUE].status)]
    /\ UNCHANGED <<payments, bookings, intentSeq, createReqs, confirmReqs,
                   adminReqs, bookingReqs, queue, running, called, returned>>
    /\ UNCHANGED outboxVars
    /\ UNCHANGED producerVars

----------------------------------------------------------------------------
(* BookingViewSet and AdminBookingViewSet: cancel, confirm, complete *)

BookingActions == {"cancel", "confirm", "complete"}

\* the student and the tutor of the booking, and a staff user
BookingActors == {"student", "tutor", "admin"}

\* views.py 103 and 131: request.user != booking.tutor.user
Forbidden(kind, actor) ==
    actor = "student" /\ kind \in {"confirm", "complete"}

\* views.py 81, 109, 137 (183, 204, 225): the status the action starts from
Allowed(kind, status) ==
    IF kind = "cancel" THEN status \in {B_PENDING, B_CONFIRMED}
    ELSE IF kind = "confirm" THEN status = B_PENDING
    ELSE status = B_CONFIRMED

\* views.py 87, 115, 143 (189, 210, 231): the status the action stores
Target(kind) ==
    IF kind = "cancel" THEN B_CANCELLED
    ELSE IF kind = "confirm" THEN B_CONFIRMED
    ELSE B_COMPLETED

\* get_object() and the checks of the action
BookingGet(r, kind, actor, b) ==
    /\ Arrives(bookingReqs, r)
    /\ CallsLeft
    /\ b \in DOMAIN bookings
    /\ bookingReqs' = [bookingReqs EXCEPT ![r] =
           IF Forbidden(kind, actor) THEN Response(403, bookings[b].status)
           ELSE IF ~Allowed(kind, bookings[b].status)
           THEN Response(400, bookings[b].status)
           ELSE [pc |-> "loaded", kind |-> kind,
                 booking |-> Instance(b, bookings[b])]]
    /\ UNCHANGED <<payments, bookings, intentSeq, createReqs, confirmReqs,
                   adminReqs, statusReqs, queue, running, called, returned>>
    /\ UNCHANGED outboxVars
    /\ UNCHANGED producerVars

\* booking.status = ...; booking.save(); the response
BookingSave(r) ==
    /\ bookingReqs[r].pc = "loaded"
    /\ LET inst == bookingReqs[r].booking
           row == [inst.row EXCEPT !.status = Target(bookingReqs[r].kind)]
       IN  /\ bookings' = [bookings EXCEPT ![inst.id] = row]
           /\ bookingReqs' = [bookingReqs EXCEPT ![r] =
                                  Response(200, row.status)]
    /\ UNCHANGED <<payments, intentSeq, createReqs, confirmReqs, adminReqs,
                   statusReqs, queue, running, called, returned>>
    /\ UNCHANGED outboxVars
    /\ UNCHANGED producerVars

----------------------------------------------------------------------------
(* Return values.  No result backend is configured (config/settings.py has *)
(* no CELERY_RESULT_BACKEND), so what a task run by a worker returns is    *)
(* dropped; only the task called directly hands its value to its caller.   *)

Return(job, value) == IF job = called THEN value ELSE returned

----------------------------------------------------------------------------
(* simulate_payment_provider *)

\* a simulator that draws at random whenever the card is no test card
SimulateOutcomes_RandomDefault(card_number) ==
    IF card_number = TEST_CARD_SUCCESS THEN {EV_SUCCEEDED}
    ELSE IF card_number \in {TEST_CARD_DECLINED, TEST_CARD_INSUFFICIENT}
         THEN {EV_FAILED}
    ELSE {EV_SUCCEEDED, EV_FAILED}

\* the decline branch that knows one of the two decline cards only
SimulateOutcomes_OneDecline(card_number) ==
    IF card_number = TEST_CARD_SUCCESS THEN {EV_SUCCEEDED}
    ELSE IF card_number = TEST_CARD_DECLINED THEN {EV_FAILED}
    ELSE IF card_number \notin {NoCard, EmptyCard}
         THEN {EV_SUCCEEDED, EV_FAILED}
    ELSE {EV_SUCCEEDED}

\* lines 55-65: the events the card number can lead to
SimulateOutcomes(card_number) ==
    IF card_number = TEST_CARD_SUCCESS THEN {EV_SUCCEEDED}
    ELSE IF card_number \in {TEST_CARD_DECLINED, TEST_CARD_INSUFFICIENT}
         THEN {EV_FAILED}
    ELSE IF card_number \notin {NoCard, EmptyCard}
         THEN {EV_SUCCEEDED, EV_FAILED}      \* random.choice
    ELSE {EV_SUCCEEDED}

\* the whole task: sleep, look the payment up, decide, enqueue the webhook
Simulate(job) ==
    /\ job \in Queued("simulate_payment_provider")
    /\ IF job.payment_id \notin DOMAIN payments
       THEN /\ queue' = Take(queue, job)
            /\ returned' = Return(job, [error |-> "Payment not found"])
       ELSE \E event \in SimulateOutcomes(job.card_number) :
            /\ queue' = Delay(Take(queue, job),
                   WebhookJob(event, payments[job.payment_id].payment_intent_id))
            /\ returned' = Return(job, [payment_id |-> job.payment_id,
                                        event |-> event])
    /\ UNCHANGED <<payments, bookings, intentSeq, createReqs, confirmReqs,
                   adminReqs, running, called>>
    /\ UNCHANGED <<bookingReqs, statusReqs>>
    /\ UNCHANGED outboxVars
    /\ UNCHANGED producerVars

\* line 22 and lines 49-71: an exception other than DoesNotExist (the
\* database or the broker is unreachable) leaves the task; the decorator
\* names no autoretry_for, the body never calls self.retry(), and the
\* message was acknowledged when the worker took it: the job is gone
SimulateRaises(job) ==
    /\ job \in Queued("simulate_payment_provider")
    /\ queue' = Take(queue, job)
    /\ UNCHANGED <<payments, bookings, intentSeq, createReqs, confirmReqs,
                   adminReqs, running, called, returned>>
    /\ UNCHANGED <<bookingReqs, statusReqs>>
    /\ UNCHANGED outboxVars
    /\ UNCHANGED producerVars

----------------------------------------------------------------------------
(* process_webhook_event *)

\* lines 87-93: look the payment up by intent id; remember the old status
WebhookGet(job) ==
    /\ job \in Queued("process_webhook_event")
    /\ queue' = Take(queue, job)
    /\ IF ByIntent(job.payment_intent_id) = {}
       THEN /\ running' = running
            /\ returned' = Return(job, [error |-> "Payment not found"])
       ELSE \E p \in ByIntent(job.payment_intent_id) :
            /\ running' = running (+) SetToBag({
                   [task |-> job.task, job |-> job, pc |-> "loaded",
                    payment |-> Instance(p, payments[p]),
                    old_status |-> payments[p].status]})
            /\ returned' = returned
    /\ UNCHANGED <<payments, bookings, intentSeq, createReqs, confirmReqs,
                   adminReqs, called>>
    /\ UNCHANGED <<bookingReqs, statusReqs>>
    /\ UNCHANGED outboxVars
    /\ UNCHANGED producerVars

\* lines 95-98: a succeeded event enqueues the side effect before the save
WebhookEnqueue(t) ==
    /\ t \in Running("process_webhook_event")
    /\ t.pc = "loaded"
    /\ t.job.event_type = EV_SUCCEEDED
    /\ queue' = Delay(queue, SuccessJob(t.payment.id))
    /\ running' = (running (-) SetToBag({t})) (+)
                      SetToBag({[t EXCEPT !.pc = "enqueued"]})
    /\ UNCHANGED <<payments, bookings, intentSeq, createReqs, confirmReqs,
                   adminReqs, called, returned>>
    /\ UNCHANGED <<bookingReqs, statusReqs>>
    /\ UNCHANGED outboxVars
    /\ UNCHANGED producerVars

\* lines 95-112: payment.status = the event's status; payment.save(); return
WebhookSave(t) ==
    /\ t \in Running("process_webhook_event")
    /\ \/ t.job.event_type = EV_SUCCEEDED /\ t.pc = "enqueued"
       \/ t.job.event_type # EV_SUCCEEDED /\ t.pc = "loaded"
    /\ LET row == [t.payment.row EXCEPT
                       !.status = EventStatus(t.job.event_type, @)]
       IN  /\ payments' = [payments EXCEPT ![t.payment.id] = row]
           /\ returned' = Return(t.job,
                  [payment_intent_id |-> t.job.payment_intent_id,
                   old_status |-> t.old_status, new_status |-> row.status])
    /\ running' = running (-) SetToBag({t})
    /\ UNCHANGED <<bookings, intentSeq, createReqs, confirmReqs, adminReqs,
                   queue, called>>
    /\ UNCHANGED <<bookingReqs, statusReqs>>
    /\ UNCHANGED outboxVars
    /\ UNCHANGED producerVars

----------------------------------------------------------------------------
(* process_successful_payment *)

\* the guard without its condition: every booking is confirmed again
NeedsConfirm_Always(status) == TRUE

\* line 135: if booking.status == Booking.Status.PENDING
NeedsConfirm(status) == status = B_PENDING

\* lines 125-134: load the payment with its booking; nothing to do unless
\* the booking is pending
SuccessGet(job) ==
    /\ job \in Queued("process_successful_payment")
    /\ queue' = Take(queue, job)
    /\ IF job.payment_id \notin DOMAIN payments
       THEN /\ running' = running
            /\ returned' = Return(job, [error |-> "Payment not found"])
       ELSE LET b == payments[job.payment_id].booking
            IN  IF NeedsConfirm(bookings[b].status)
                THEN /\ running' = running (+) SetToBag({
                            [task |-> job.task, job |-> job, pc |-> "loaded",
                             booking |-> Instance(b, bookings[b])]})
                     /\ returned' = returned
                ELSE /\ running' = running
                     /\ returned' = Return(job,
                            [payment_id |-> job.payment_id, booking_id |-> b,
                             booking_status |-> bookings[b].status])
    /\ UNCHANGED <<payments, bookings, intentSeq, createReqs, confirmReqs,
                   adminReqs, called>>
    /\ UNCHANGED <<bookingReqs, statusReqs>>
    /\ UNCHANGED outboxVars
    /\ UNCHANGED producerVars

\* lines 135-144: booking.status = CONFIRMED; booking.save(); return
SuccessSave(t) ==
    /\ t \in Running("process_successful_payment")
    /\ LET row == [t.booking.row EXCEPT !.status = B_CONFIRMED]
       IN  /\ bookings' = [bookings EXCEPT ![t.booking.id] = row]
           /\ returned' = Return(t.job,
                  [payment_id |-> t.job.payment_id,
                   booking_id |-> t.booking.id, booking_status |-> row.status])
    /\ running' = running (-) SetToBag({t})
    /\ UNCHANGED <<payments, intentSeq, createReqs, confirmReqs, adminReqs,
                   queue, called>>
    /\ UNCHANGED <<bookingReqs, statusReqs>>
    /\ UNCHANGED outboxVars
    /\ UNCHANGED producerVars

----------------------------------------------------------------------------
(* Tutor mutations and their outbox events (tutors/signals.py) *)

NULL == <<>>
At(t) == <<t>>

EventType(kind) ==
    IF kind = "create" THEN "TutorCreated"
    ELSE IF kind = "update" THEN "TutorUpdated"
    ELSE "TutorDeleted"

\* the OutboxEvent row create_event() inserts for mutation m of tutor t
OutboxRow(m, kind, t) ==
    [aggregate_type |-> "Tutor", aggregate_id |-> t,
     event_type |-> EventType(kind), payload |-> [id |-> t, mutation |-> m],
     created_at |-> now, published_at |-> NULL]

\* the rows the callback of mutation m has inserted
EventsOf(m) == {e \in DOMAIN outbox : outbox[e].payload.mutation = m}

TutorIds == {1, 2}

\* no other open transaction holds the row of tutor t
RowFree(t) ==
    \A m \in DOMAIN tutorTx :
        tutorTx[m].pc = "open" => tutorTx[m].tutor # t

\* Tutor.save() or Tutor.delete() inside a transaction: the row is written
\* and post_save / post_delete queues create_event with on_commit
TxMutate(m, kind, t) ==
    /\ Arrives(tutorTx, m)
    /\ RowFree(t)
    /\ IF kind = "create" THEN t \notin tutors ELSE t \in tutors
    /\ tutorTx' = [tutorTx EXCEPT ![m] =
                       [pc |-> "open", kind |-> kind, tutor |-> t]]
    /\ UNCHANGED <<tutors, outbox, now, broker, brokerMode, sendCalls,
                   concurrency, runs>>
    /\ UNCHANGED payVars
    /\ UNCHANGED producerVars

\* the transaction commits: the Tutor change is durable, the callback is due
TxCommit(m) ==
    /\ tutorTx[m].pc = "open"
    /\ tutors' = IF tutorTx[m].kind = "delete"
                 THEN tutors \ {tutorTx[m].tutor}
                 ELSE tutors \cup {tutorTx[m].tutor}
    /\ tutorTx' = [tutorTx EXCEPT ![m].pc = "committed"]
    /\ UNCHANGED <<outbox, now, broker, brokerMode, sendCalls, concurrency,
                   runs>>
    /\ UNCHANGED payVars
    /\ UNCHANGED producerVars

\* the transaction rolls back: the callback is discarded with it
TxRollback(m) ==
    /\ tutorTx[m].pc = "open"
    /\ tutorTx' = [tutorTx EXCEPT ![m] = [pc |-> "rolled_back"]]
    /\ UNCHANGED <<tutors, outbox, now, broker, brokerMode, sendCalls,
                   concurrency, runs>>
    /\ UNCHANGED payVars
    /\ UNCHANGED producerVars

\* after the commit create_event() runs: OutboxEvent.objects.create(...)
TxCreateEvent(m) ==
    /\ tutorTx[m].pc = "committed"
    /\ outbox' = Append(outbox,
                        OutboxRow(m, tutorTx[m].kind, tutorTx[m].tutor))
    /\ tutorTx' = [tutorTx EXCEPT ![m] = [pc |-> "done"]]
    /\ UNCHANGED <<tutors, now, broker, brokerMode, sendCalls, concurrency,
                   runs>>
    /\ UNCHANGED payVars
    /\ UNCHANGED producerVars

\* after the commit the process dies, or the INSERT of the event raises
TxEventLost(m) ==
    /\ tutorTx[m].pc = "committed"
    /\ tutorTx' = [tutorTx EXCEPT ![m] = [pc |-> "lost"]]
    /\ UNCHANGED <<tutors, outbox, now, broker, brokerMode, sendCalls,
                   concurrency, runs>>
    /\ UNCHANGED payVars
    /\ UNCHANGED producerVars

\* time passes
Tick ==
    /\ now < MaxTime
    /\ now' = now + 1
    /\ UNCHANGED <<tutors, tutorTx, outbox, broker, brokerMode, sendCalls,
                   concurrency, runs>>
    /\ UNCHANGED payVars
    /\ UNCHANGED producerVars

----------------------------------------------------------------------------
(* publish_outbox_events (events/tasks.py) and EventProducer.send *)

\* the slice [:100], scaled to the number of events the model creates
BatchSize == 2

\* the query without its filter
Unpublished_All == DOMAIN outbox

\* filter(published_at__isnull=True)
Unpublished == {e \in DOMAIN outbox : outbox[e].published_at = NULL}

\* the sequences that list the events of S once each, by created_at
RECURSIVE OrderedBy(_)
OrderedBy(S) ==
    IF S = {} THEN {<<>>}
    ELSE LET first == {e \in S : \A f \in S :
                           outbox[e].created_at <= outbox[f].created_at}
         IN  UNION {{<<e>> \o rest : rest \in OrderedBy(S \ {e})} : e \in first}

Prefix(seq, n) == IF Len(seq) <= n THEN seq ELSE SubSeq(seq, 1, n)

\* line 24: what the query may return when the loop first reads it
Batches == {Prefix(seq, BatchSize) : seq \in OrderedBy(Unpublished)}

\* line 39: f"{event.aggregate_type.lower()}-events"
Topic(aggregate_type) ==
    IF aggregate_type = "Tutor" THEN "tutor-events" ELSE "other-events"

\* lines 30-40: the message and where it goes
Message(e) ==
    [topic |-> Topic(outbox[e].aggregate_type), key |-> outbox[e].aggregate_id,
     event_id |-> e]

\* the events a broker in mode "poison" refuses on every attempt (a
\* message it cannot take, whoever sends it and whenever)
Poisoned == 1..BatchSize

\* whether this producer.send call for event e raises; a broker that
\* fails at will fails once its log is full
SendFails(e, fails) ==
    IF brokerMode = "ok" THEN fails = FALSE
    ELSE IF brokerMode = "alternate" THEN fails = (sendCalls = 0)
    ELSE IF brokerMode = "poison" THEN fails = (e \in Poisoned)
    ELSE Len(broker) < MaxLog \/ fails

\* a run starts in the lowest free worker slot
FreeSlot(w) ==
    /\ w <= concurrency
    /\ runs[w].pc = "idle"
    /\ \A v \in 1..(w - 1) : runs[v].pc # "idle"

\* lines 22-28: the task starts and the loop reads the batch
RunStart(w) ==
    /\ FreeSlot(w)
    /\ \E batch \in Batches :
           runs' = [runs EXCEPT ![w] =
                        [pc |-> "send", batch |-> batch, published_count |-> 0]]
    /\ UNCHANGED <<tutors, tutorTx, outbox, now, broker, brokerMode, sendCalls,
                   concurrency>>
    /\ UNCHANGED payVars
    /\ UNCHANGED producerVars

\* the loop without its try: the first exception ends the run
RunSend_Aborts(w) ==
    /\ runs[w].pc = "send"
    /\ runs[w].batch # <<>>
    /\ sendCalls' = IF brokerMode = "alternate" THEN 1 - sendCalls ELSE sendCalls
    /\ \E fails \in BOOLEAN :
           /\ SendFails(Head(runs[w].batch), fails)
           /\ IF fails
              THEN /\ broker' = broker
                   /\ runs' = [runs EXCEPT ![w].batch = <<>>]
              ELSE /\ broker' = Append(broker, Message(Head(runs[w].batch)))
                   /\ runs' = [runs EXCEPT ![w].pc = "mark"]
    /\ UNCHANGED <<tutors, tutorTx, outbox, now, brokerMode, concurrency>>
    /\ UNCHANGED payVars
    /\ UNCHANGED producerVars

\* lines 29-40 and 46-49: send the next event; an exception skips its mark
RunSend(w) ==
    /\ runs[w].pc = "send"
    /\ runs[w].batch # <<>>
    /\ sendCalls' = IF brokerMode = "alternate" THEN 1 - sendCalls ELSE sendCalls
    /\ \E fails \in BOOLEAN :
           /\ SendFails(Head(runs[w].batch), fails)
           /\ IF fails
              THEN /\ broker' = broker
                   /\ runs' = [runs EXCEPT ![w].batch = Tail(@)]
              ELSE /\ broker' = Append(broker, Message(Head(runs[w].batch)))
                   /\ runs' = [runs EXCEPT ![w].pc = "mark"]
    /\ UNCHANGED <<tutors, tutorTx, outbox, now, brokerMode, concurrency>>
    /\ UNCHANGED payVars
    /\ UNCHANGED producerVars

\* whether this event.save() raises: the database fails only in the mode
\* in which anything may fail
SaveFails(fails) ==
    IF brokerMode = "any" THEN TRUE ELSE fails = FALSE

\* lines 42-44: published_at = timezone.now(); save(update_fields=...);
\* lines 46-49: an exception of the save leaves the row as it is
RunMark(w) ==
    /\ runs[w].pc = "mark"
    /\ \E fails \in BOOLEAN :
           /\ SaveFails(fails)
           /\ IF fails
              THEN /\ outbox' = outbox
                   /\ runs' = [runs EXCEPT ![w].pc = "send", ![w].batch = Tail(@)]
              ELSE /\ outbox' = [outbox EXCEPT
                                     ![Head(runs[w].batch)].published_at = At(now)]
                   /\ runs' = [runs EXCEPT ![w].pc = "send",
                                           ![w].batch = Tail(@),
                                           ![w].published_count = @ + 1]
    /\ UNCHANGED <<tutors, tutorTx, now, broker, brokerMode, sendCalls,
                   concurrency>>
    /\ UNCHANGED payVars
    /\ UNCHANGED producerVars

\* lines 51-56: the loop is over; return published_count
RunFinish(w) ==
    /\ runs[w].pc = "send"
    /\ runs[w].batch = <<>>
    /\ runs' = [runs EXCEPT ![w] = IdleReq]
    /\ UNCHANGED <<tutors, tutorTx, outbox, now, broker, brokerMode, sendCalls,
                   concurrency>>
    /\ UNCHANGED payVars
    /\ UNCHANGED producerVars

----------------------------------------------------------------------------
(* Spec: one payment of user u1 for booking 1, confirmed over the API,     *)
(* driven by the workers and by the admin webhook simulator.  The row may  *)
(* start in any status: PaymentAdmin leaves the status editable, and the   *)
(* booking API moves the booking.                                          *)

\* the payment's intent id, and one that no row carries
Intents == {1, 9}

\* no thread has touched EventProducer yet
ProducerUnused ==
    /\ instance = 0
    /\ objects = 0
    /\ kafka = 0
    /\ producers = <<>>
    /\ lock = 0
    /\ threads = <<>>

OutboxUnused ==
    /\ tutors = {}
    /\ tutorTx = <<>>
    /\ outbox = <<>>
    /\ now = 0
    /\ broker = <<>>
    /\ brokerMode = "ok"
    /\ sendCalls = 0
    /\ concurrency = 1
    /\ runs = <<>>

Init ==
    /\ \E s \in PaymentStatus :
           payments = (1 :> PaymentRow(1, "k1", Details1, s, 1, "u1"))
    /\ \E s \in BookingStatus : bookings = (1 :> BookingRow("u1", s))
    /\ intentSeq = 1
    /\ createReqs = <<>>
    /\ confirmReqs = [r \in 1..MaxCalls |-> IdleReq]
    /\ adminReqs = [a \in 1..MaxCalls |-> IdleReq]
    /\ bookingReqs = [r \in 1..MaxCalls |-> IdleReq]
    /\ statusReqs = <<>>
    /\ queue = EmptyBag
    /\ running = EmptyBag
    /\ called = NoCall
    /\ returned = NoResult
    /\ OutboxUnused
    /\ ProducerUnused

Next ==
    \/ \E r \in 1..MaxCalls, u \in Users, i \in Intents, c \in ConfirmCards :
           ConfirmGet(r, u, i, c)
    \/ \E r \in 1..MaxCalls : ConfirmSave(r)
    \/ \E r \in 1..MaxCalls : ConfirmEnqueue(r)
    \/ \E a \in 1..MaxCalls, e \in WebhookEvents, i \in Intents :
           AdminWebhookGet(a, e, i)
    \/ \E a \in 1..MaxCalls : AdminWebhookSave(a)
    \/ \E r \in 1..MaxCalls, kind \in BookingActions, actor \in BookingActors,
          b \in DOMAIN bookings : BookingGet(r, kind, actor, b)
    \/ \E r \in 1..MaxCalls : BookingSave(r)
    \/ \E job \in BagToSet(queue) : Simulate(job)
    \/ \E job \in BagToSet(queue) : WebhookGet(job)
    \/ \E t \in BagToSet(running) : WebhookEnqueue(t)
    \/ \E t \in BagToSet(running) : WebhookSave(t)
    \/ \E job \in BagToSet(queue) : SuccessGet(job)
    \/ \E t \in BagToSet(running) : SuccessSave(t)

Spec == Init /\ [][Next]_vars

----------------------------------------------------------------------------
(* SpecIntent: CreateIntent requests against an empty payments table.      *)
(* u1 owns bookings 1 and 2, u2 owns booking 3.                            *)

PipelineUnused ==
    /\ confirmReqs = <<>>
    /\ adminReqs = <<>>
    /\ bookingReqs = <<>>
    /\ statusReqs = <<>>
    /\ queue = EmptyBag
    /\ running = EmptyBag
    /\ called = NoCall
    /\ returned = NoResult

InitIntent ==
    /\ payments = <<>>
    /\ bookings = (1 :> BookingRow("u1", B_PENDING)) @@
                  (2 :> BookingRow("u1", B_PENDING)) @@
                  (3 :> BookingRow("u2", B_PENDING))
    /\ intentSeq = 0
    /\ createReqs = [r \in 1..MaxCreate |-> IdleReq]
    /\ PipelineUnused
    /\ OutboxUnused
    /\ ProducerUnused

NextIntent ==
    \/ \E r \in 1..MaxCreate, u \in Users, b \in 1..3, k \in Keys, d \in Details :
           CreateIntentGet(r, u, b, k, d)
    \/ \E r \in 1..MaxCreate : CreateIntentInsert(r)

SpecIntent == InitIntent /\ [][NextIntent]_vars

----------------------------------------------------------------------------
(* Claims about CreateIntent (SpecIntent) *)

\* requests that got past the booking check and were answered with a payment
Served == {r \in Answered(createReqs) : createReqs[r].code \in {200, 201}}

\* r1 was answered before every other request with its key arrived
FirstWithKey(r1) ==
    \A r \in Issued(createReqs) \ {r1} :
        createReqs[r].key = createReqs[r1].key => r1 \in createReqs[r].after

\* the row holds what the request asked for, in status pending
StoresRequest(row, req) ==
    /\ row.idempotency_key = req.key
    /\ row.amount = req.details.amount
    /\ row.currency = req.details.currency
    /\ row.metadata = req.details.metadata
    /\ row.booking = req.booking
    /\ row.user = req.user
    /\ row.status = PENDING

\* C1: of two sequential CreateIntent calls of one requester with the same
\* idempotency key (whatever else the second call asks for), the first is
\* answered 201 created=true, the second 200 created=false with the same
\* payment_intent_id, and afterwards exactly one row has the key and it
\* stores the amount, currency, metadata, booking, user and status of the
\* first call.
C1_SequentialIdempotent ==
    \A r1 \in Answered(createReqs), r2 \in Answered(createReqs) :
        LET q1 == createReqs[r1]
            q2 == createReqs[r2]
        IN  ( /\ r1 # r2
              /\ q1.key = q2.key
              /\ q1.user = q2.user
              /\ OwnBooking(q1.booking, q1.user)
              /\ OwnBooking(q2.booking, q2.user)
              /\ FirstWithKey(r1) )
            => /\ q1.code = 201 /\ q1.created
               /\ q2.code = 200 /\ ~q2.created
               /\ q2.payment_intent_id = q1.payment_intent_id
               /\ Cardinality(ByKey(q1.key)) = 1
               /\ \A p \in ByKey(q1.key) :
                      /\ StoresRequest(payments[p], q1)
                      /\ payments[p].payment_intent_id = q1.payment_intent_id

\* a second call that changes the booking, the amount, the currency and the
\* metadata has been answered after the first
C1_Witness ==
    \E r1 \in Answered(createReqs), r2 \in Answered(createReqs) :
        LET q1 == createReqs[r1]
            q2 == createReqs[r2]
        IN  /\ r1 # r2
            /\ q1.key = q2.key
            /\ q1.user = q2.user
            /\ FirstWithKey(r1)
            /\ q1.code = 201
            /\ q2.code = 200
            /\ q2.booking # q1.booking
            /\ q2.details # q1.details

\* C2: however CreateIntent requests with one idempotency key interleave,
\* at most one row has the key, it is the row of the one request answered
\* created=true, every request served returns that row's payment_intent_id,
\* and no two rows share an idempotency_key or a payment_intent_id.
C2_ConcurrentIdempotent ==
    /\ \A p \in DOMAIN payments, q \in DOMAIN payments :
           p # q => /\ payments[p].idempotency_key # payments[q].idempotency_key
                    /\ payments[p].payment_intent_id # payments[q].payment_intent_id
    /\ \A k \in Keys :
           LET served == {r \in Served : createReqs[r].key = k}
               creators == {r \in served : createReqs[r].created}
           IN  /\ Cardinality(ByKey(k)) <= 1
               /\ Cardinality(creators) = Cardinality(ByKey(k))
               /\ \A r \in creators : createReqs[r].code = 201
               /\ \A r \in served \ creators : createReqs[r].code = 200
               /\ \A r \in served : \A p \in ByKey(k) :
                      createReqs[r].payment_intent_id =
                          payments[p].payment_intent_id
               /\ \A r \in creators : \A p \in ByKey(k) :
                      StoresRequest(payments[p], createReqs[r])
    /\ \A r \in Answered(createReqs) :
           OwnBooking(createReqs[r].booking, createReqs[r].user)
               => r \in Served

\* two requests with one key both missed the lookup; the loser of the INSERT
\* caught the IntegrityError and returned the winner's row
C2_Witness ==
    \E r1 \in Served, r2 \in Served :
        /\ createReqs[r1].key = createReqs[r2].key
        /\ createReqs[r1].created
        /\ createReqs[r2].conflict
        /\ r1 \notin createReqs[r2].after
        /\ createReqs[r2].payment_intent_id = createReqs[r1].payment_intent_id

----------------------------------------------------------------------------
(* SpecTasks: one task called directly, with any arguments, on a payment   *)
(* and a booking in any status; the workers run what it enqueues.  Payment *)
(* 7 does not exist.                                                       *)

EV_OTHER == "payment_intent.canceled"

DirectCalls ==
    {SimulateJob(p, c) : p \in {1, 7}, c \in Cards}
    \cup {WebhookJob(e, i) : e \in WebhookEvents \cup {EV_OTHER}, i \in Intents}
    \cup {SuccessJob(p) : p \in {1, 7}}

InitTasks ==
    /\ \E s \in PaymentStatus :
           payments = (1 :> PaymentRow(1, "k1", Details1, s, 1, "u1"))
    /\ \E s \in BookingStatus : bookings = (1 :> BookingRow("u1", s))
    /\ intentSeq = 1
    /\ createReqs = <<>>
    /\ confirmReqs = <<>>
    /\ adminReqs = <<>>
    /\ bookingReqs = <<>>
    /\ statusReqs = <<>>
    /\ \E job \in DirectCalls :
           /\ called = job
           /\ queue = SetToBag({job})
    /\ running = EmptyBag
    /\ returned = NoResult
    /\ OutboxUnused
    /\ ProducerUnused

\* the caller calls the same task with the same arguments once more, after
\* the first call has returned and what it enqueued has run
CallAgain ==
    /\ "call" \notin DOMAIN called
    /\ returned # NoResult
    /\ queue = EmptyBag
    /\ running = EmptyBag
    /\ called' = called @@ [call |-> 2]
    /\ queue' = SetToBag({called'})
    /\ returned' = NoResult
    /\ UNCHANGED <<payments, bookings, intentSeq, createReqs, confirmReqs,
                   adminReqs, running>>
    /\ UNCHANGED <<bookingReqs, statusReqs>>
    /\ UNCHANGED outboxVars
    /\ UNCHANGED producerVars

NextTasks ==
    \/ CallAgain
    \/ \E job \in BagToSet(queue) : Simulate(job)
    \/ \E job \in BagToSet(queue) : WebhookGet(job)
    \/ \E t \in BagToSet(running) : WebhookEnqueue(t)
    \/ \E t \in BagToSet(running) : WebhookSave(t)
    \/ \E job \in BagToSet(queue) : SuccessGet(job)
    \/ \E t \in BagToSet(running) : SuccessSave(t)

SpecTasks == InitTasks /\ [][NextTasks]_vars

----------------------------------------------------------------------------
(* Claims about the payment state machine (Spec) *)

Terminal == {SUCCEEDED, FAILED}

\* C3: once a payment's stored status is succeeded or failed, no step of
\* Confirm, of process_webhook_event or of the webhook simulator stores
\* pending or processing again.
C3_TerminalNeverReopened ==
    [][\A p \in DOMAIN payments :
           payments[p].status \in Terminal
               => payments'[p].status \notin {PENDING, PROCESSING}]_vars

\* C4: a succeeded payment never becomes failed and a failed payment never
\* becomes succeeded, whatever events are delivered.
C4_TerminalNeverFlipped ==
    [][\A p \in DOMAIN payments :
           /\ payments[p].status = SUCCEEDED => payments'[p].status # FAILED
           /\ payments[p].status = FAILED => payments'[p].status # SUCCEEDED]_vars

\* C5: Confirm by the owner on a payment that is processing, succeeded,
\* failed or refunded answers 200 with that status at once, writes no row
\* and enqueues nothing.
C5_ConfirmNoOpUnlessPending ==
    [][\A r \in 1..MaxCalls, u \in Users, i \in Intents, c \in ConfirmCards :
           \A p \in ByIntentAndUser(i, u) :
               ( /\ ConfirmGet(r, u, i, c)
                 /\ payments[p].status \in
                        {PROCESSING, SUCCEEDED, FAILED, REFUNDED} )
               => /\ confirmReqs'[r] = Response(200, payments[p].status)
                  /\ payments' = payments
                  /\ bookings' = bookings
                  /\ queue' = queue
                  /\ running' = running]_vars

\* Confirm has answered "refunded" while nothing was enqueued and the
\* payment stayed refunded
C5_Witness ==
    /\ \E r \in Answered(confirmReqs) :
           confirmReqs[r] = Response(200, REFUNDED)
    /\ payments[1].status = REFUNDED
    /\ queue = EmptyBag
    /\ running = EmptyBag

\* C6: Confirm by the owner on a pending payment stores processing (and no
\* other status), then enqueues exactly one simulate_payment_provider job
\* with the payment's id and the card number given, and answers 200
\* "processing" in the step that enqueues, before any worker has run.
C6_ConfirmPending ==
    [][\A r \in 1..MaxCalls :
           /\ \A u \in Users, i \in Intents, c \in ConfirmCards :
                  \A p \in ByIntentAndUser(i, u) :
                      (ConfirmGet(r, u, i, c) /\ payments[p].status = PENDING)
                      => /\ confirmReqs'[r].pc = "loaded"
                         /\ confirmReqs'[r].card = c
                         /\ confirmReqs'[r].payment.id = p
                         /\ payments' = payments
                         /\ queue' = queue
           /\ (confirmReqs[r].pc = "loaded" /\ confirmReqs'[r].pc # "loaded")
              => /\ confirmReqs'[r].pc = "saved"
                 /\ payments'[confirmReqs[r].payment.id].status = PROCESSING
                 /\ queue' = queue
           /\ (confirmReqs[r].pc = "saved" /\ confirmReqs'[r].pc # "saved")
              => /\ confirmReqs'[r] = Response(200, PROCESSING)
                 /\ queue' = Delay(queue,
                        SimulateJob(confirmReqs[r].payment.id,
                                    confirmReqs[r].card))
                 /\ payments' = payments
                 /\ running' = running]_vars

\* Confirm has answered "processing" while its job, with the card given,
\* still waits in the queue
C6_Witness ==
    /\ \E r \in Answered(confirmReqs) :
           confirmReqs[r] = Response(200, PROCESSING)
    /\ payments[1].status = PROCESSING
    /\ queue = SetToBag({SimulateJob(1, TEST_CARD_DECLINED)})
    /\ running = EmptyBag

----------------------------------------------------------------------------
(* Claims about the tasks (SpecTasks) *)

SimulateReturned ==
    /\ called.task = "simulate_payment_provider"
    /\ called.payment_id \in DOMAIN payments
    /\ returned # NoResult

\* C7: for an existing payment the event Simulate emits is decided by the
\* card: the success card gives succeeded, the two decline cards give
\* failed, no card (None or "") gives succeeded; only another card may give
\* either.
C7_DeterministicCards ==
    SimulateReturned =>
        /\ returned.event \in WebhookEvents
        /\ called.card_number = TEST_CARD_SUCCESS => returned.event = EV_SUCCEEDED
        /\ called.card_number \in {TEST_CARD_DECLINED, TEST_CARD_INSUFFICIENT}
               => returned.event = EV_FAILED
        /\ called.card_number \in {NoCard, EmptyCard}
               => returned.event = EV_SUCCEEDED
        /\ \A j \in Queued("process_webhook_event") :
               /\ j.event_type = returned.event
               /\ j.payment_intent_id = payments[called.payment_id].payment_intent_id

\* Simulate ran with "" and emitted succeeded, the job still queued
C7_Witness ==
    /\ SimulateReturned
    /\ called.card_number = EmptyCard
    /\ returned.event = EV_SUCCEEDED
    /\ queue = SetToBag({WebhookJob(EV_SUCCEEDED, 1)})

\* another card has given failed
C7_OtherCardFails ==
    /\ SimulateReturned
    /\ called.card_number = OTHER_CARD
    /\ returned.event = EV_FAILED

----------------------------------------------------------------------------
(* SpecOutbox: Tutor mutations, the clock and the publisher.  The broker   *)
(* never fails, fails every other send, or fails at will; one worker       *)
(* process runs the publisher, or several do.                              *)

InitOutbox ==
    /\ tutors = {}
    /\ tutorTx = [m \in 1..MaxTx |-> IdleReq]
    /\ outbox = <<>>
    /\ now = 1
    /\ broker = <<>>
    /\ brokerMode \in {"ok", "alternate", "any"}
    /\ sendCalls = 0
    /\ concurrency \in 1..MaxRuns
    /\ runs = [w \in 1..MaxRuns |-> IdleReq]
    /\ payments = <<>>
    /\ bookings = <<>>
    /\ intentSeq = 0
    /\ createReqs = <<>>
    /\ PipelineUnused
    /\ ProducerUnused

NextOutbox ==
    \/ \E m \in 1..MaxTx, kind \in {"create", "update", "delete"},
          t \in TutorIds : TxMutate(m, kind, t)
    \/ \E m \in 1..MaxTx : TxCommit(m)
    \/ \E m \in 1..MaxTx : TxRollback(m)
    \/ \E m \in 1..MaxTx : TxCreateEvent(m)
    \/ \E m \in 1..MaxTx : TxEventLost(m)
    \/ Tick
    \/ \E w \in 1..MaxRuns : RunStart(w)
    \/ \E w \in 1..MaxRuns : RunSend(w)
    \/ \E w \in 1..MaxRuns : RunMark(w)
    \/ \E w \in 1..MaxRuns : RunFinish(w)

SpecOutbox == InitOutbox /\ [][NextOutbox]_vars

\* "Runs every 1 second via Celery Beat" (events/tasks.py line 18), and the
\* workers finish the runs they have started
FairOutbox ==
    /\ SpecOutbox
    /\ WF_vars(\E w \in 1..MaxRuns : RunStart(w))
    /\ \A w \in 1..MaxRuns :
           WF_vars(RunSend(w)) /\ WF_vars(RunMark(w)) /\ WF_vars(RunFinish(w))

----------------------------------------------------------------------------
(* Claims about the outbox (SpecOutbox, FairOutbox) *)

\* C8: outbox atomicity.  A Tutor mutation whose transaction rolled back has
\* no OutboxEvent row, and one whose transaction committed has exactly one,
\* whatever happens after the commit (a crash, a failing INSERT).
C8_OutboxAtomic ==
    \A m \in 1..MaxTx :
        /\ tutorTx[m].pc = "rolled_back" => EventsOf(m) = {}
        /\ tutorTx[m].pc \in {"committed", "done", "lost"}
               => Cardinality(EventsOf(m)) = 1

\* a broker that never fails, or one that fails every other send call
Recovering == brokerMode \in {"ok", "alternate"}

\* what the callback of mutation m has inserted is published in the end
Drained(m) ==
    (Recovering /\ tutorTx[m].pc = "done")
        ~> (\A e \in EventsOf(m) : outbox[e].published_at # NULL)

\* C9: publisher no-loss.  With a broker that never fails every event gets
\* its published_at, and gets it exactly once: a run writes published_at
\* only while it is null.  With a broker that fails every other send every
\* event is published in the end.
C9_PublisherNoLoss ==
    /\ [][\A w \in 1..MaxRuns :
              (brokerMode = "ok" /\ RunMark(w))
                  => outbox[Head(runs[w].batch)].published_at = NULL]_vars
    /\ \A m \in 1..MaxTx : Drained(m)

\* C10: an OutboxEvent row never changes after its creation, except that
\* published_at goes from null to a timestamp once: it is never reset to
\* null and never overwritten, also when publisher runs overlap.
C10_RowsImmutable ==
    [][\A e \in DOMAIN outbox :
           /\ e \in DOMAIN outbox'
           /\ [outbox'[e] EXCEPT !.published_at = NULL]
                  = [outbox[e] EXCEPT !.published_at = NULL]
           /\ outbox[e].published_at # NULL
                  => outbox'[e].published_at = outbox[e].published_at]_vars

\* the step of run w in which the send or the save of an event raised
Failure(w) ==
    \/ RunSend(w) /\ broker' = broker
    \/ RunMark(w) /\ runs'[w].published_count = runs[w].published_count

\* the batch of a starting run leaves out an unpublished event only when it
\* is full of events that are not newer
Selects(batch) ==
    \A e \in Unpublished :
        \/ \E k \in 1..Len(batch) : batch[k] = e
        \/ /\ Len(batch) = BatchSize
           /\ \A k \in 1..Len(batch) :
                  outbox[batch[k]].created_at <= outbox[e].created_at

\* C11: a failing send or save of one event does not end the run: the row
\* of the event is left as it is, the events selected after it are still
\* to be attempted and the run returns only when none is left; a later run
\* selects what is still unpublished; the count the run returns starts at
\* zero and grows by one exactly when the run marks an event.
C11_FailureIsolated ==
    [][\A w \in 1..MaxRuns :
           /\ Failure(w)
                  => /\ outbox' = outbox
                     /\ runs'[w] = [runs[w] EXCEPT !.pc = "send",
                                                   !.batch = Tail(@)]
           /\ (RunMark(w) /\ ~Failure(w))
                  => /\ runs'[w].published_count = runs[w].published_count + 1
                     /\ outbox'[Head(runs[w].batch)].published_at # NULL
                     /\ runs'[w].batch = Tail(runs[w].batch)
           /\ RunStart(w)
                  => /\ runs'[w].published_count = 0
                     /\ Selects(runs'[w].batch)
           /\ RunFinish(w) => runs[w].batch = <<>>]_vars

\* the first send of a run failed, the second event was sent and marked,
\* and the run is about to return 1
C11_Witness ==
    /\ concurrency = 1
    /\ brokerMode = "alternate"
    /\ runs[1].pc = "send"
    /\ runs[1].batch = <<>>
    /\ runs[1].published_count = 1
    /\ Len(outbox) = 2
    /\ outbox[1].published_at = NULL
    /\ outbox[2].published_at # NULL

\* process_successful_payment was called directly for payment 1 (booking 1)
SuccessCalled ==
    /\ called.task = "process_successful_payment"
    /\ called.payment_id \in DOMAIN payments

\* C12: process_successful_payment for an existing payment confirms a
\* pending booking and writes nothing to a confirmed, cancelled or
\* completed one; each run returns with the booking not pending and reports
\* its status, and the second of two runs in sequence writes nothing.
C12_SideEffectIdempotent ==
    [][SuccessCalled =>
           LET b == payments[called.payment_id].booking
           IN  /\ bookings' # bookings
                      => /\ bookings[b].status = B_PENDING
                         /\ bookings' = [bookings EXCEPT
                                             ![b].status = B_CONFIRMED]
               /\ (returned = NoResult /\ returned' # NoResult)
                      => /\ bookings'[b].status =
                                IF bookings[b].status = B_PENDING
                                THEN B_CONFIRMED ELSE bookings[b].status
                         /\ returned' = [payment_id |-> called.payment_id,
                                         booking_id |-> b,
                                         booking_status |-> bookings'[b].status]
               /\ "call" \in DOMAIN called => bookings' = bookings]_vars

\* the second run in sequence has returned, the booking is confirmed
C12_Witness ==
    /\ SuccessCalled
    /\ "call" \in DOMAIN called
    /\ returned # NoResult
    /\ returned.booking_status = B_CONFIRMED
    /\ bookings[1].status = B_CONFIRMED

----------------------------------------------------------------------------
(* Claims about bookings (Spec) *)

\* C13: process_successful_payment saves a booking only over a stored
\* status of pending: whatever cancel, confirm and complete requests and
\* other runs of the task do between its read and its save, it never
\* overwrites a confirmed, cancelled or completed booking, and so confirms
\* a booking at most once.
C13_NeverDowngrades ==
    [][\A t \in BagToSet(running) :
           (t.task = "process_successful_payment" /\ SuccessSave(t))
               => bookings[t.booking.id].status = B_PENDING]_vars

\* the edges the booking API is meant to follow
BookingEdges ==
    {<<B_PENDING, B_CONFIRMED>>, <<B_CONFIRMED, B_COMPLETED>>,
     <<B_PENDING, B_CANCELLED>>, <<B_CONFIRMED, B_CANCELLED>>}

\* C17: a cancel, confirm or complete request changes the stored status of
\* a booking only along pending -> confirmed, confirmed -> completed and
\* pending or confirmed -> cancelled, so that cancelled and completed are
\* final; a request that finds another status is answered 400 and writes
\* nothing.
C17_BookingEdges ==
    [][\A r \in 1..MaxCalls :
           /\ BookingSave(r)
                  => LET b == bookingReqs[r].booking.id
                     IN  bookings'[b].status # bookings[b].status
                             => <<bookings[b].status, bookings'[b].status>>
                                    \in BookingEdges
           /\ \A kind \in BookingActions, actor \in BookingActors,
                 b \in DOMAIN bookings :
                  (/\ BookingGet(r, kind, actor, b)
                   /\ ~Forbidden(kind, actor)
                   /\ ~Allowed(kind, bookings[b].status))
                      => /\ bookingReqs'[r] = Response(400, bookings[b].status)
                         /\ bookings' = bookings]_vars

----------------------------------------------------------------------------
(* FairPipeline: one Confirm on a pending payment and the workers, nothing *)
(* else.  The request is served to its end and every job that is enqueued  *)
(* is run (a worker that takes each task in turn and does not crash).      *)

InitPipeline ==
    /\ \E d \in Details :
           payments = (1 :> PaymentRow(1, "k1", d, PENDING, 1, "u1"))
    /\ \E s \in BookingStatus : bookings = (1 :> BookingRow("u1", s))
    /\ intentSeq = 1
    /\ createReqs = <<>>
    /\ confirmReqs = <<IdleReq>>
    /\ adminReqs = <<>>
    /\ bookingReqs = <<>>
    /\ statusReqs = <<>>
    /\ queue = EmptyBag
    /\ running = EmptyBag
    /\ called = NoCall
    /\ returned = NoResult
    /\ OutboxUnused
    /\ ProducerUnused

NextPipeline ==
    \/ \E u \in Users, i \in Intents, c \in ConfirmCards : ConfirmGet(1, u, i, c)
    \/ ConfirmSave(1)
    \/ ConfirmEnqueue(1)
    \/ \E job \in BagToSet(queue) : Simulate(job)
    \/ \E job \in BagToSet(queue) : WebhookGet(job)
    \/ \E t \in BagToSet(running) : WebhookEnqueue(t)
    \/ \E t \in BagToSet(running) : WebhookSave(t)
    \/ \E job \in BagToSet(queue) : SuccessGet(job)
    \/ \E t \in BagToSet(running) : SuccessSave(t)

FairPipeline ==
    /\ InitPipeline
    /\ [][NextPipeline]_vars
    /\ WF_vars(ConfirmSave(1))
    /\ WF_vars(ConfirmEnqueue(1))
    /\ WF_vars(\E job \in BagToSet(queue) : Simulate(job))
    /\ WF_vars(\E job \in BagToSet(queue) : WebhookGet(job))
    /\ WF_vars(\E t \in BagToSet(running) : WebhookEnqueue(t))
    /\ WF_vars(\E t \in BagToSet(running) : WebhookSave(t))
    /\ WF_vars(\E job \in BagToSet(queue) : SuccessGet(job))
    /\ WF_vars(\E t \in BagToSet(running) : SuccessSave(t))

\* Confirm with the card has just enqueued its job, the booking is pending
Confirmed(card) ==
    /\ SimulateJob(1, card) \in BagToSet(queue)
    /\ confirmReqs[1] = Response(200, PROCESSING)
    /\ bookings[1].status = B_PENDING

\* C14: end-to-end success.  Confirm with the success card on a pending
\* payment of a pending booking leaves the status processing at once, and
\* from then on the system reaches, and stays in, a state where the
\* payment is succeeded and the booking confirmed.
C14_EndToEndSuccess ==
    /\ [](Confirmed(TEST_CARD_SUCCESS) => payments[1].status = PROCESSING)
    /\ Confirmed(TEST_CARD_SUCCESS)
           ~> [](/\ payments[1].status = SUCCEEDED
                 /\ bookings[1].status = B_CONFIRMED)

\* after the Confirm the payment is succeeded, and the side effect has read
\* the pending booking and is about to confirm it
C14_Witness ==
    /\ confirmReqs[1] = Response(200, PROCESSING)
    /\ payments[1].status = SUCCEEDED
    /\ bookings[1].status = B_PENDING
    /\ queue = EmptyBag
    /\ \E t \in Running("process_successful_payment") :
           t.booking.row.status = B_PENDING

\* the side-effect job is neither queued nor running, the booking pending
NoSideEffect ==
    /\ Queued("process_successful_payment") = {}
    /\ Running("process_successful_payment") = {}
    /\ bookings[1].status = B_PENDING

\* C15: end-to-end decline.  Confirm with either decline card on a pending
\* payment of a pending booking leads to a failed payment; from the
\* Confirm on no process_successful_payment job exists and the booking
\* stays pending.
C15_EndToEndDecline ==
    \A card \in {TEST_CARD_DECLINED, TEST_CARD_INSUFFICIENT} :
        /\ Confirmed(card) ~> [](payments[1].status = FAILED)
        /\ [](Confirmed(card) => []NoSideEffect)

\* the pipeline has run to its end after a declined Confirm
C15_Witness ==
    /\ confirmReqs[1] = Response(200, PROCESSING)
    /\ payments[1].status = FAILED
    /\ bookings[1].status = B_PENDING
    /\ queue = EmptyBag
    /\ running = EmptyBag

----------------------------------------------------------------------------
(* SpecMissing: operations that reference a payment or a booking that does *)
(* not exist or is not the requester's.  Payment 1 (intent 1) and booking  *)
(* 1 are u1's; payment 7, intent 9 and booking 5 do not exist.             *)

\* no payment with this intent id belongs to u
NotOwnedIntent(i, u) ==
    \A p \in DOMAIN payments :
        payments[p].payment_intent_id # i \/ payments[p].user # u

\* no booking with this id belongs to u
NotOwnedBooking(b, u) ==
    IF b \in DOMAIN bookings THEN bookings[b].student # u ELSE TRUE

MissingCalls ==
    {SimulateJob(7, c) : c \in Cards}
    \cup {WebhookJob(e, 9) : e \in WebhookEvents}
    \cup {SuccessJob(7)}

InitMissing ==
    /\ \E s \in PaymentStatus :
           payments = (1 :> PaymentRow(1, "k1", Details1, s, 1, "u1"))
    /\ \E s \in BookingStatus : bookings = (1 :> BookingRow("u1", s))
    /\ intentSeq = 1
    /\ createReqs = <<IdleReq>>
    /\ confirmReqs = <<IdleReq>>
    /\ statusReqs = <<IdleReq>>
    /\ adminReqs = <<>>
    /\ bookingReqs = <<>>
    /\ \E job \in MissingCalls :
           /\ called = job
           /\ queue = SetToBag({job})
    /\ running = EmptyBag
    /\ returned = NoResult
    /\ OutboxUnused
    /\ ProducerUnused

NextMissing ==
    \/ \E u \in Users, b \in {1, 5}, k \in Keys, d \in Details :
           NotOwnedBooking(b, u) /\ CreateIntentGet(1, u, b, k, d)
    \/ \E u \in Users, i \in Intents, c \in ConfirmCards :
           NotOwnedIntent(i, u) /\ ConfirmGet(1, u, i, c)
    \/ \E u \in Users, i \in Intents :
           NotOwnedIntent(i, u) /\ StatusGet(1, u, i)
    \/ \E job \in BagToSet(queue) : Simulate(job)
    \/ \E job \in BagToSet(queue) : WebhookGet(job)
    \/ \E job \in BagToSet(queue) : SuccessGet(job)

SpecMissing == InitMissing /\ [][NextMissing]_vars

\* C16: an operation that references a payment or booking that does not
\* exist, or on the request path is not the requester's, has no effect:
\* CreateIntent, Confirm and GetStatus answer 404, the three tasks return
\* an error result, no payment or booking row is created or changed, and
\* no job is enqueued or started.
C16_NotFoundNoEffect ==
    [][/\ payments' = payments
       /\ bookings' = bookings
       /\ queue' \sqsubseteq queue
       /\ running' = running
       /\ createReqs'[1].pc # "idle" =>
              /\ createReqs'[1].pc = "done"
              /\ createReqs'[1].code = 404
       /\ confirmReqs'[1] \in {IdleReq, Response(404, "none")}
       /\ statusReqs'[1] \in {IdleReq, Response(404, "none")}
       /\ returned' \in {NoResult, [error |-> "Payment not found"]}]_vars

\* every kind of request was answered 404 and the task returned its error
C16_Witness ==
    /\ createReqs[1].pc = "done"
    /\ createReqs[1].code = 404
    /\ createReqs[1].user = "u2"
    /\ createReqs[1].booking = 1
    /\ confirmReqs[1] = Response(404, "none")
    /\ statusReqs[1] = Response(404, "none")
    /\ returned = [error |-> "Payment not found"]
    /\ queue = EmptyBag

----------------------------------------------------------------------------
(* Claims about the payment state machine, continued (Spec, FairPipeline) *)

PaymentEdges ==
    {<<PENDING, PROCESSING>>, <<PROCESSING, SUCCEEDED>>,
     <<PROCESSING, FAILED>>}

\* C18: the stored status of a payment changes only from pending to
\* processing and from processing to succeeded or failed: the webhook
\* handler and the webhook simulator settle only a payment that is
\* processing.
C18_PaymentEdges ==
    [][\A p \in DOMAIN payments :
           payments'[p].status # payments[p].status
               => <<payments[p].status, payments'[p].status>>
                      \in PaymentEdges]_vars

\* C19: process_webhook_event stores succeeded before it enqueues
\* process_successful_payment, so whenever that job is queued or running
\* the stored status is succeeded; a failed event enqueues no such job.
C19_StoredBeforeEnqueued ==
    /\ \A j \in Queued("process_successful_payment") :
           payments[j.payment_id].status = SUCCEEDED
    /\ \A t \in Running("process_successful_payment") :
           payments[t.job.payment_id].status = SUCCEEDED
    /\ \A t \in Running("process_webhook_event") :
           t.job.event_type = EV_FAILED
               => Queued("process_successful_payment") = {}

----------------------------------------------------------------------------
(* SpecBacklog: the publisher over events created before its first run,    *)
(* one more than a batch holds, with creation times that may coincide.     *)

Backlog == BatchSize + 1

\* the OutboxEvent row of backlog event e, created at time t
BacklogRow(e, t) ==
    [aggregate_type |-> "Tutor", aggregate_id |-> ((e - 1) % 2) + 1,
     event_type |-> EventType("update"),
     payload |-> [id |-> ((e - 1) % 2) + 1, mutation |-> e],
     created_at |-> t, published_at |-> NULL]

InitBacklog ==
    /\ tutors = TutorIds
    /\ tutorTx = <<>>
    /\ \E times \in [1..Backlog -> 0..1] :
           outbox = [e \in 1..Backlog |-> BacklogRow(e, times[e])]
    /\ now = 1
    /\ broker = <<>>
    /\ brokerMode \in {"ok", "alternate", "any"}
    /\ sendCalls = 0
    /\ concurrency \in 1..MaxRuns
    /\ runs = [w \in 1..MaxRuns |-> IdleReq]
    /\ payments = <<>>
    /\ bookings = <<>>
    /\ intentSeq = 0
    /\ createReqs = <<>>
    /\ PipelineUnused
    /\ ProducerUnused

NextBacklog ==
    \/ Tick
    \/ \E w \in 1..MaxRuns : RunStart(w)
    \/ \E w \in 1..MaxRuns : RunSend(w)
    \/ \E w \in 1..MaxRuns : RunMark(w)
    \/ \E w \in 1..MaxRuns : RunFinish(w)

SpecBacklog == InitBacklog /\ [][NextBacklog]_vars

\* the events of a batch are unpublished, distinct and listed by created_at
Ascending(batch) ==
    /\ Len(batch) <= BatchSize
    /\ \A k \in 1..Len(batch) :
           /\ batch[k] \in DOMAIN outbox
           /\ outbox[batch[k]].published_at = NULL
    /\ \A k, l \in 1..Len(batch) :
           k < l => /\ batch[k] # batch[l]
                    /\ outbox[batch[k]].created_at
                           <= outbox[batch[l]].created_at

\* the broker has acknowledged the message of event e, under its topic
\* and key
Delivered(e) ==
    \E k \in 1..Len(broker) :
        /\ broker[k].event_id = e
        /\ broker[k].key = outbox[e].aggregate_id
        /\ broker[k].topic = "tutor-events"

\* C20: a run selects only unpublished events, at most a batch of them and
\* the oldest ones, and attempts them oldest first; it sets published_at
\* only on the event whose send has just been acknowledged, so a published
\* event has been delivered at least once under its aggregate's topic and
\* key; no row outside the batch, and no other field, is modified.
C20_SelectsSendsMarks ==
    /\ [][\A w \in 1..MaxRuns :
              /\ RunStart(w)
                     => Ascending(runs'[w].batch) /\ Selects(runs'[w].batch)
              /\ RunSend(w)
                     => /\ outbox' = outbox
                        /\ \/ /\ broker' = broker
                              /\ runs'[w].batch = Tail(runs[w].batch)
                           \/ /\ broker' = Append(broker,
                                       [topic |-> "tutor-events",
                                        key |-> outbox[Head(runs[w].batch)]
                                                    .aggregate_id,
                                        event_id |-> Head(runs[w].batch)])
                              /\ runs'[w].batch = runs[w].batch
              /\ RunMark(w)
                     => /\ Delivered(Head(runs[w].batch))
                        /\ runs'[w].batch = Tail(runs[w].batch)
                        /\ \A e \in DOMAIN outbox :
                               \/ outbox'[e] = outbox[e]
                               \/ /\ e = Head(runs[w].batch)
                                  /\ outbox'[e] =
                                         [outbox[e] EXCEPT
                                              !.published_at = At(now)]
              /\ (RunFinish(w) \/ Tick) => outbox' = outbox]_vars
    /\ [](\A e \in DOMAIN outbox :
              outbox[e].published_at # NULL => Delivered(e))

\* a run has left the newest event of the backlog out of its batch and has
\* marked the first event of the batch after the broker took it
C20_Witness ==
    /\ \E w \in 1..MaxRuns :
           /\ runs[w].pc = "send"
           /\ runs[w].published_count = 1
           /\ Len(runs[w].batch) = BatchSize - 1
    /\ Cardinality(Unpublished) = Backlog - 1
    /\ \E e \in DOMAIN outbox : outbox[e].published_at # NULL /\ Delivered(e)

----------------------------------------------------------------------------
(* SpecDeliver: one event delivered along both paths.  Payments 1 and 2    *)
(* start in the same status, their bookings 1 and 2 in the same status;    *)
(* the webhook simulator is posted the event for payment 1 and             *)
(* process_webhook_event is enqueued with the same event for payment 2.    *)

InitDeliver ==
    /\ \E s \in PaymentStatus :
           payments = (1 :> PaymentRow(1, "k1", Details1, s, 1, "u1")) @@
                      (2 :> PaymentRow(2, "k2", Details1, s, 2, "u1"))
    /\ \E s \in BookingStatus :
           bookings = (1 :> BookingRow("u1", s)) @@ (2 :> BookingRow("u1", s))
    /\ intentSeq = 2
    /\ createReqs = <<>>
    /\ confirmReqs = <<>>
    /\ adminReqs = <<IdleReq>>
    /\ bookingReqs = <<>>
    /\ statusReqs = <<>>
    /\ \E e \in WebhookEvents :
           /\ called = WebhookJob(e, 2)
           /\ queue = SetToBag({WebhookJob(e, 2)})
    /\ running = EmptyBag
    /\ returned = NoResult
    /\ OutboxUnused
    /\ ProducerUnused

NextDeliver ==
    \/ AdminWebhookGet(1, called.event_type, 1)
    \/ AdminWebhookSave(1)
    \/ \E job \in BagToSet(queue) : WebhookGet(job)
    \/ \E t \in BagToSet(running) : WebhookEnqueue(t)
    \/ \E t \in BagToSet(running) : WebhookSave(t)
    \/ \E job \in BagToSet(queue) : SuccessGet(job)
    \/ \E t \in BagToSet(running) : SuccessSave(t)

SpecDeliver == InitDeliver /\ [][NextDeliver]_vars

\* the simulator has answered and no job is queued or running
Settled ==
    /\ adminReqs[1].pc = "done"
    /\ queue = EmptyBag
    /\ running = EmptyBag

\* C21: once the event has been applied along both paths and every job it
\* set off has run, the payment and the booking of the simulator path are
\* in the same statuses as those of the task path, whatever the statuses
\* were before and whichever event it was.
C21_SamePaths ==
    Settled => /\ payments[1].status = payments[2].status
               /\ bookings[1].status = bookings[2].status

----------------------------------------------------------------------------
(* FairCrash: FairPipeline with a simulator job that may meet an           *)
(* infrastructure failure; afterwards the infrastructure works again.      *)

NextCrash ==
    \/ NextPipeline
    \/ \E job \in BagToSet(queue) : SimulateRaises(job)

FairCrash ==
    /\ InitPipeline
    /\ [][NextCrash]_vars
    /\ WF_vars(ConfirmSave(1))
    /\ WF_vars(ConfirmEnqueue(1))
    /\ WF_vars(\E job \in BagToSet(queue) : Simulate(job))
    /\ WF_vars(\E job \in BagToSet(queue) : WebhookGet(job))
    /\ WF_vars(\E t \in BagToSet(running) : WebhookEnqueue(t))
    /\ WF_vars(\E t \in BagToSet(running) : WebhookSave(t))
    /\ WF_vars(\E job \in BagToSet(queue) : SuccessGet(job))
    /\ WF_vars(\E t \in BagToSet(running) : SuccessSave(t))

\* C22: a simulator job that raises is put back on the queue, and a
\* payment that has been moved to processing reaches succeeded or failed
\* once the infrastructure works again.
C22_RetriedToTerminal ==
    /\ [][\A job \in BagToSet(queue) :
              SimulateRaises(job) => job \in BagToSet(queue')]_vars
    /\ (payments[1].status = PROCESSING)
           ~> (payments[1].status \in {SUCCEEDED, FAILED})

----------------------------------------------------------------------------
(* Claims about the order of the pipeline (FairPipeline) *)

\* the steps of the pipeline that are under way: the Confirm request
\* between its lookup and its answer, the jobs queued, the tasks running
UnderWay ==
    (IF confirmReqs[1].pc \in {"loaded", "saved"} THEN 1 ELSE 0)
        + BagCardinality(queue) + BagCardinality(running)

\* C23: with one payment and one Confirm the pipeline is sequential: at
\* most one of its steps is under way at any time; the simulator starts
\* only when processing is stored, changes no payment and leaves exactly
\* one webhook job; process_successful_payment starts only when succeeded
\* is stored.
C23_Sequential ==
    /\ [](UnderWay <= 1)
    /\ [][\A job \in BagToSet(queue) :
              /\ Simulate(job)
                     => /\ payments[job.payment_id].status = PROCESSING
                        /\ payments' = payments
                        /\ BagCardinality(queue') = 1
                        /\ \E j \in BagToSet(queue') :
                               j.task = "process_webhook_event"
              /\ SuccessGet(job)
                     => payments[job.payment_id].status = SUCCEEDED]_vars

----------------------------------------------------------------------------
(* EventProducer (events/producer.py): threads of one process that build   *)
(* the singleton and call send() or close(), interleaved at every read or  *)
(* write of _instance, _producer and _lock.                                *)

IdleThread == [pc |-> "idle", op |-> "none", self |-> 0, producer |-> 0,
               result |-> "none", ops |-> 0]

AllElse == <<payVars, outboxVars>>

\* a thread calls EventProducer().send(...) or EventProducer().close()
Call(t, op) ==
    /\ threads[t].pc = "idle"
    /\ threads[t].ops < MaxOps
    /\ threads' = [threads EXCEPT ![t].pc = "new24", ![t].op = op,
                                  ![t].self = 0, ![t].producer = 0]
    /\ UNCHANGED <<instance, objects, kafka, producers, lock, AllElse>>

\* line 24: if cls._instance is None
New24(t) ==
    /\ threads[t].pc = "new24"
    /\ threads' = [threads EXCEPT
                       ![t].pc = IF instance = 0 THEN "new25" ELSE "new28"]
    /\ UNCHANGED <<instance, objects, kafka, producers, lock, AllElse>>

\* line 25: with cls._lock
New25(t) ==
    /\ threads[t].pc = "new25"
    /\ lock = 0
    /\ lock' = t
    /\ threads' = [threads EXCEPT ![t].pc = "new26"]
    /\ UNCHANGED <<instance, objects, kafka, producers, AllElse>>

\* lines 26-27: the second look under the lock; the object is created
New26(t) ==
    /\ threads[t].pc = "new26"
    /\ IF instance = 0
       THEN /\ objects' = objects + 1
            /\ instance' = objects + 1
       ELSE UNCHANGED <<instance, objects>>
    /\ lock' = 0
    /\ threads' = [threads EXCEPT ![t].pc = "new28"]
    /\ UNCHANGED <<kafka, producers, AllElse>>

\* line 28: return cls._instance; the method called on it begins
New28(t) ==
    /\ threads[t].pc = "new28"
    /\ threads' = [threads EXCEPT
                       ![t].self = instance,
                       ![t].pc = IF threads[t].op = "send" THEN "get31"
                                 ELSE "close55"]
    /\ UNCHANGED <<instance, objects, kafka, producers, lock, AllElse>>

\* line 31: if self._producer is None
Get31(t) ==
    /\ threads[t].pc = "get31"
    /\ threads' = [threads EXCEPT
                       ![t].pc = IF kafka = 0 THEN "get32" ELSE "get39"]
    /\ UNCHANGED <<instance, objects, kafka, producers, lock, AllElse>>

\* line 32: with self._lock
Get32(t) ==
    /\ threads[t].pc = "get32"
    /\ lock = 0
    /\ lock' = t
    /\ threads' = [threads EXCEPT ![t].pc = "get33"]
    /\ UNCHANGED <<instance, objects, kafka, producers, AllElse>>

\* lines 33-38: the second look under the lock; the KafkaProducer is built
Get33(t) ==
    /\ threads[t].pc = "get33"
    /\ IF kafka = 0
       THEN /\ producers' = Append(producers, "open")
            /\ kafka' = Len(producers) + 1
       ELSE UNCHANGED <<kafka, producers>>
    /\ lock' = 0
    /\ threads' = [threads EXCEPT ![t].pc = "get39"]
    /\ UNCHANGED <<instance, objects, AllElse>>

\* line 39 and line 43: return self._producer, read once more
Get39(t) ==
    /\ threads[t].pc = "get39"
    /\ threads' = [threads EXCEPT ![t].producer = kafka, ![t].pc = "send44"]
    /\ UNCHANGED <<instance, objects, kafka, producers, lock, AllElse>>

\* what producer.send does on the object the thread holds
SendResult(producer) ==
    IF producer = 0 THEN "no producer"
    ELSE IF producers[producer] = "closed" THEN "closed producer"
    ELSE "sent"

\* lines 44-46: producer.send(...); future.get(timeout=10)
Send44(t) ==
    /\ threads[t].pc = "send44"
    /\ threads' = [threads EXCEPT
                       ![t].result = SendResult(threads[t].producer),
                       ![t].pc = "idle", ![t].ops = @ + 1]
    /\ UNCHANGED <<instance, objects, kafka, producers, lock, AllElse>>

\* line 55: with self._lock
Close55(t) ==
    /\ threads[t].pc = "close55"
    /\ lock = 0
    /\ lock' = t
    /\ threads' = [threads EXCEPT ![t].pc = "close56"]
    /\ UNCHANGED <<instance, objects, kafka, producers, AllElse>>

\* lines 56-57: if self._producer: self._producer.close()
Close56(t) ==
    /\ threads[t].pc = "close56"
    /\ IF kafka # 0
       THEN /\ producers' = [producers EXCEPT ![kafka] = "closed"]
            /\ lock' = lock
            /\ threads' = [threads EXCEPT ![t].pc = "close58"]
       ELSE /\ producers' = producers
            /\ lock' = 0
            /\ threads' = [threads EXCEPT ![t].pc = "idle", ![t].ops = @ + 1,
                                          ![t].result = "closed"]
    /\ UNCHANGED <<instance, objects, kafka, AllElse>>

\* line 58: self._producer = None; the lock is released
Close58(t) ==
    /\ threads[t].pc = "close58"
    /\ kafka' = 0
    /\ lock' = 0
    /\ threads' = [threads EXCEPT ![t].pc = "idle", ![t].ops = @ + 1,
                                  ![t].result = "closed"]
    /\ UNCHANGED <<instance, objects, producers, AllElse>>

InitProducer ==
    /\ instance = 0
    /\ objects = 0
    /\ kafka = 0
    /\ producers = <<>>
    /\ lock = 0
    /\ threads = [t \in 1..MaxThreads |-> IdleThread]
    /\ payments = <<>>
    /\ bookings = <<>>
    /\ intentSeq = 0
    /\ createReqs = <<>>
    /\ PipelineUnused
    /\ OutboxUnused

NextProducer ==
    \/ \E t \in 1..MaxThreads, op \in {"send", "close"} : Call(t, op)
    \/ \E t \in 1..MaxThreads : New24(t)
    \/ \E t \in 1..MaxThreads : New25(t)
    \/ \E t \in 1..MaxThreads : New26(t)
    \/ \E t \in 1..MaxThreads : New28(t)
    \/ \E t \in 1..MaxThreads : Get31(t)
    \/ \E t \in 1..MaxThreads : Get32(t)
    \/ \E t \in 1..MaxThreads : Get33(t)
    \/ \E t \in 1..MaxThreads : Get39(t)
    \/ \E t \in 1..MaxThreads : Send44(t)
    \/ \E t \in 1..MaxThreads : Close55(t)
    \/ \E t \in 1..MaxThreads : Close56(t)
    \/ \E t \in 1..MaxThreads : Close58(t)

SpecProducer == InitProducer /\ [][NextProducer]_vars

\* one EventProducer object, which every thread holds, and at most one
\* open KafkaProducer
OneOfEach ==
    /\ objects <= 1
    /\ \A t \in 1..MaxThreads :
           threads[t].self # 0 => threads[t].self = instance
    /\ Cardinality({p \in DOMAIN producers : producers[p] = "open"}) <= 1

\* C24: whatever the interleaving, one EventProducer object is created and
\* every thread gets it, at most one KafkaProducer is open at a time (one
\* in all as long as nobody closes), and no send() is made on a
\* KafkaProducer that has been closed.
C24_ThreadSafeSingleton ==
    /\ OneOfEach
    /\ \A t \in 1..MaxThreads : threads[t].result # "closed producer"

----------------------------------------------------------------------------
(* Claims about what CreateIntent discloses (SpecIntent) *)

\* C25: every CreateIntent answer that carries a payment carries one of
\* the requesting user and of the booking named in the request, also when
\* the idempotency key is already that of another user's payment.
C25_OwnPaymentOnly ==
    \A r \in Answered(createReqs) :
        createReqs[r].code \in {200, 201}
            => \E p \in ByIntent(createReqs[r].payment_intent_id) :
                   /\ payments[p].user = createReqs[r].user
                   /\ payments[p].booking = createReqs[r].booking

----------------------------------------------------------------------------
(* Claims about concurrent Confirm requests (Spec) *)

\* the simulator jobs for payment p that wait in the queue
RECURSIVE Copies(_, _)
Copies(jobs, p) ==
    IF jobs = {} THEN 0
    ELSE LET job == CHOOSE j \in jobs : TRUE
         IN  (IF job.payment_id = p THEN CopiesIn(job, queue) ELSE 0)
                 + Copies(jobs \ {job}, p)

\* C26: no payment ever has more than one simulate_payment_provider job:
\* however Confirm requests for it interleave, the queue never holds two.
C26_OneSimulateJob ==
    \A p \in DOMAIN payments :
        Copies(Queued("simulate_payment_provider"), p) <= 1

----------------------------------------------------------------------------
(* Claims about the booking and its payment together (FairPipeline) *)

\* C27: process_successful_payment writes confirmed over a pending booking
\* only while the stored status of the payment that set it off is
\* succeeded.
C27_ConfirmedImpliesSucceeded ==
    [][\A t \in BagToSet(running) :
           (t.task = "process_successful_payment" /\ SuccessSave(t))
               => payments[t.job.payment_id].status = SUCCEEDED]_vars

----------------------------------------------------------------------------
(* FairStarve: the publisher, run again and again, over a backlog of one   *)
(* event more than a batch holds; the broker refuses a batch-full of them  *)
(* on every attempt and takes the other one.                               *)

InitStarve ==
    /\ tutors = TutorIds
    /\ tutorTx = <<>>
    /\ \E times \in [1..Backlog -> 0..1] :
           outbox = [e \in 1..Backlog |-> BacklogRow(e, times[e])]
    /\ now = 1
    /\ broker = <<>>
    /\ brokerMode = "poison"
    /\ sendCalls = 0
    /\ concurrency \in 1..MaxRuns
    /\ runs = [w \in 1..MaxRuns |-> IdleReq]
    /\ payments = <<>>
    /\ bookings = <<>>
    /\ intentSeq = 0
    /\ createReqs = <<>>
    /\ PipelineUnused
    /\ ProducerUnused

FairStarve ==
    /\ InitStarve
    /\ [][NextBacklog]_vars
    /\ WF_vars(\E w \in 1..MaxRuns : RunStart(w))
    /\ \A w \in 1..MaxRuns :
           WF_vars(RunSend(w)) /\ WF_vars(RunMark(w)) /\ WF_vars(RunFinish(w))

\* every event the broker refuses was created before event e
BehindRefused(e) ==
    \A f \in Poisoned : outbox[f].created_at < outbox[e].created_at

\* C28: an event whose own send succeeds is published in the end, however
\* many older events, a batch-full or more, fail on every attempt.
C28_NoStarvation ==
    \A e \in (1..Backlog) \ Poisoned :
        BehindRefused(e) => <>(outbox[e].published_at # NULL)

----------------------------------------------------------------------------
(* Claims about what reaches the broker (SpecBacklog) *)

\* the events the broker has acknowledged more than once
Duplicates ==
    {e \in DOMAIN outbox :
         \E k, l \in 1..Len(broker) :
             k < l /\ broker[k].event_id = e /\ broker[l].event_id = e}

\* a single worker process: a run starts only when the one before is over
OneAtATime == concurrency = 1

\* runs that follow one another send every event once at most
ExactlyOnceInTurn ==
    (OneAtATime /\ brokerMode = "ok") => Duplicates = {}

\* C29: with a broker that never fails (and so no failing save, and no
\* worker that dies) every event is sent to the broker once at most, also
\* when a run starts while another one is in progress.
C29_ExactlyOnce ==
    brokerMode = "ok" => Duplicates = {}

\* the broker has acknowledged event e, and did so for the first time
\* before it acknowledged event f at all
DeliveredBefore(e, f) ==
    \E k \in 1..Len(broker) :
        /\ broker[k].event_id = e
        /\ \A l \in 1..k : broker[l].event_id # f

\* C30: of two events of one aggregate the older one is delivered first:
\* once the newer one has reached the broker, the older one had reached it
\* before, also when a send of the older one failed.
C30_AggregateOrder ==
    \A e, f \in DOMAIN outbox :
        (/\ outbox[e].aggregate_id = outbox[f].aggregate_id
         /\ outbox[e].created_at < outbox[f].created_at
         /\ \E l \in 1..Len(broker) : broker[l].event_id = f)
            => DeliveredBefore(e, f)

====
